---- MODULE Spec2Model ----
(***************************************************************************)
(* Session gateway of MoltShell/terminal-server.                            *)
(*                                                                         *)
(* server/index.ts        the WebSocket gateway (upgrade, per-connection   *)
(*                        handlers, REST restart)                          *)
(* server/pty-handler.ts  the tmux adapter and the PTY bridge              *)
(*                                                                         *)
(* The gateway is one Node.js event loop: every handler below is one       *)
(* run-to-completion step.  The tmux server and the processes spawned by   *)
(* node-pty run outside that loop; their steps are separate actions.       *)
(***************************************************************************)
EXTENDS Integers, Sequences, FiniteSets, TLC

\* ---------------------------------------------------------------- bounds
MaxConns == 2        \* connection slots, each used for one WebSocket
MaxWrites == 1       \* input messages written to bridges, over all connections
MaxChunks == 2       \* output chunks produced by bridges, over all connections
MaxSharedChunks == 1 \* output chunks while several connections share sessions
MaxExits == 3        \* invocations of the exit subscriber of one bridge
MaxModeFails == 2    \* failing `tmux set -g mouse on` attempts at the start
MaxTicks == 3        \* steps of the clock after the start

Conns == 1..MaxConns

\* ------------------------------------------------------- session identifiers
\* An identifier is a sequence of symbols, so that one identifier can be a
\* proper prefix of another ("a" and "ab").
DefaultId == <<"default">>
IdA == <<"a">>
IdAB == <<"a", "b">>
SessionIds == {DefaultId, IdA, IdAB}
NoId == <<>>
NoName == <<>>

\* An identifier is client text and may hold shell syntax.  ShellBreak is the
\* text ";tmux kill-session -t sandbox-" taken as one symbol, so IdInject is
\* the identifier "zz;tmux kill-session -t sandbox-a".
ShellBreak == ";tmux kill-session -t sandbox-"
IdInject == <<"zz", ShellBreak, "a">>

\* `sandbox-${sessionId}`
DerivedName(sessionId) == <<"sandbox-">> \o sessionId

AllNames == {DerivedName(s) : s \in SessionIds}

\* s.startsWith(p)
StartsWith(s, p) == Len(p) <= Len(s) /\ SubSeq(s, 1, Len(p)) = p

\* ------------------------------------------------------------- tmux adapter
\* Resolution of `-t <target>` by tmux: the session of exactly that name,
\* otherwise the only session whose name starts with the target, otherwise
\* none (no session, or an ambiguous target).
TmuxTarget(sess, target) ==
  IF target \in sess THEN {target}
  ELSE LET m == {n \in sess : StartsWith(n, target)}
       IN IF Cardinality(m) = 1 THEN m ELSE {}

\* One tmux command with a -t target, has-session or kill-session: its exit
\* status and the sessions it leaves.
TmuxCommand(sess, verb, target) ==
  LET found == TmuxTarget(sess, target)
  IN [ok |-> found # {},
      sessions |-> IF verb = "kill-session" THEN sess \ found ELSE sess]

\* The places of a session name where the shell ends the command, the text
\* before the first of them (the target the first command gets), and the
\* session named by the command that follows it.
Breaks(name) == {i \in 1..Len(name) : name[i] = ShellBreak}
FirstBreak(name) == CHOOSE i \in Breaks(name) : \A j \in Breaks(name) : i <= j
FirstTarget(name) ==
  IF Breaks(name) = {} THEN name ELSE SubSeq(name, 1, FirstBreak(name) - 1)
InjectedTarget(name) ==
  <<"sandbox-">> \o SubSeq(name, FirstBreak(name) + 1, Len(name))

\* execSync(`tmux <verb> -t ${name} 2>/dev/null`): /bin/sh runs the line, so
\* a name with shell syntax runs the command it carries after the first one;
\* the status is the status of the last command run.  This is the line with
\* no other client of the tmux server served between its commands: for
\* has-session the first command changes nothing and its status is dropped,
\* so the line acts when its last command runs; the two commands of a kill
\* line are steps of their own (killTmuxSessionFirst, killTmuxSessionInjected).
execSync(sess, verb, name) ==
  LET first == TmuxCommand(sess, verb, FirstTarget(name))
  IN IF Breaks(name) = {} THEN first
     ELSE TmuxCommand(first.sessions, "kill-session", InjectedTarget(name))

\* tmuxSessionExists(sessionName): true iff the command line exits with 0
tmuxSessionExists(sess, sessionName) == execSync(sess, "has-session", sessionName).ok

\* tmuxSessionExists(sessionName): the sessions the command line leaves
tmuxSessionExistsSessions(sess, sessionName) ==
  execSync(sess, "has-session", sessionName).sessions

\* killTmuxSession(sessionId): the sessions left; a failure is swallowed
killTmuxSession(sess, sessionId) ==
  execSync(sess, "kill-session", DerivedName(sessionId)).sessions

\* A session name with shell syntax makes the line of killTmuxSession two
\* tmux commands, run by /bin/sh one after the other; the tmux server serves
\* other clients between them.
Injects(sessionId) == Breaks(DerivedName(sessionId)) # {}

\* `tmux kill-session -t sandbox-zz`, the line up to its first `;`
killTmuxSessionFirst(sess, sessionId) ==
  TmuxCommand(sess, "kill-session", FirstTarget(DerivedName(sessionId))).sessions

\* `tmux kill-session -t sandbox-a 2>/dev/null`, the command after the `;`
killTmuxSessionInjected(sess, sessionId) ==
  TmuxCommand(sess, "kill-session", InjectedTarget(DerivedName(sessionId))).sessions

\* The tmux server ends with its last session, and its global options end
\* with it: the next server starts with the defaults (mouse off).
ServerOption(sess, option) == IF sess = {} THEN FALSE ELSE option

\* a list without the filter on the prefix
listTmuxSessionsAll(sess) == {SubSeq(n, 2, Len(n)) : n \in sess}

\* tmux list-sessions, keep the names starting with sandbox-, strip it
listTmuxSessions(sess) ==
  {SubSeq(n, 2, Len(n)) : n \in {x \in sess : StartsWith(x, <<"sandbox-">>)}}

VARIABLES
  started,    \* the listen callback has run
  useTmux,    \* hasTmux(): `which tmux` succeeds
  sessions,   \* names of the sessions live in the tmux server
  mouse,      \* tmux global option `mouse` is on
  modeFails,  \* how many of the next mode-set calls fail (server not ready)
  echoMode,   \* ECHO_MODE: TERMINAL_MODE=echo in the environment
  sessionMouse, \* the sessions whose own option `mouse` is on (set-option -t)
  upd,        \* the clock and the self-update of the gateway process
  conn,       \* per connection slot: the WebSocket and its bridge
  rst,        \* the handler that waits for a tmux command it has run
  last        \* the handler or step that ran last

vars == <<started, useTmux, sessions, mouse, modeFails, echoMode, sessionMouse,
          upd, conn, rst, last>>

\* execSync blocks: while a handler waits for one of its tmux commands the
\* event loop runs nothing else.  pc names the command that comes next, todo
\* holds the identifiers still to kill, by names the handler (the restart, the
\* listen callback, or close-session of connection c).
NoRestart == [pc |-> "idle", todo |-> <<>>, by |-> "none", c |-> 0]
Idle == rst.pc = "idle"

\* ---------------------------------------------------------------- messages
InputData == {"x"}
\* a dimension of a resize message: {} when the field is missing, else {n}
DimVals == {{}, {0 - 5}, {0}, {120}}
\* resize messages: two good ones, and each bad value in either place
ResizeMessages ==
  {m \in [type : {"resize"}, cols : DimVals \cup {{100}}, rows : DimVals \cup {{40}}] :
     \/ m.cols = {120} /\ m.rows \in DimVals
     \/ m.rows = {120} /\ m.cols \in DimVals
     \/ m.cols = {100} /\ m.rows = {40}}
ClientMessages ==
  [type : {"input"}, data : InputData]
    \cup ResizeMessages
    \cup {[type |-> "close-session"], [type |-> "malformed"], [type |-> "other"]}

\* JavaScript truthiness of a numeric field: present and not 0
Truthy(v) == \E n \in v : n # 0
Num(v) == CHOOSE n \in v : TRUE

\* ------------------------------------------------------------- connections
DefaultCols == 80
DefaultRows == 24

NoConn ==
  [sid |-> NoId, ws |-> "NONE", pty |-> FALSE, proc |-> "none", cmd |-> "none",
   queued |-> FALSE, at |-> NoName, cols |-> 0, rows |-> 0, sent |-> <<>>,
   written |-> <<>>, closeSession |-> FALSE, garbage |-> FALSE, produced |-> 0,
   exits |-> 0, buffer |-> <<>>, promptDue |-> FALSE,
   dataCallback |-> FALSE, exitCallback |-> FALSE, unheard |-> 0]

Alive(r) == r.proc \in {"pending", "attached"}

\* the step that ran last: its name, its connection (0: none), for a resize
\* message the two dimensions the message carried, and for an accepted
\* upgrade the path and the session parameter of the request, and for a
\* list request the identifiers of the response
Did(op, c) ==
  [op |-> op, c |-> c, cols |-> {}, rows |-> {}, path |-> "", session |-> {},
   resp |-> {}]

\* -------------------------------------------------------------- self-update
\* const UPDATE_CHECK_INTERVAL = 5 * 60 * 1000, in milliseconds
UPDATE_CHECK_INTERVAL == 300000
\* the clock of the model advances by half an interval
TickMs == 150000

\* The first process: lastUpdateCheck = 0 and nothing in flight.  checkTimes
\* is the Date.now() of every check the running process has started and pulls
\* the number of pull scripts it has started; earlierCheck is the Date.now()
\* of the last check a process before it started, 0 while there was none.
FreshUpdate(now) ==
  [now |-> now, lastUpdateCheck |-> 0, checkTimes |-> <<>>, fetching |-> 0,
   pulls |-> 0, pulling |-> 0, earlierCheck |-> 0]

\* The process ends and systemd starts it again: the module state is new
\* (lastUpdateCheck = 0, no fetch and no child of its own), the clock runs
\* on, and the checks of the process that ended are checks of the past.
RestartedUpdate(u) ==
  [FreshUpdate(u.now) EXCEPT
     !.earlierCheck = IF u.checkTimes = <<>> THEN u.earlierCheck
                      ELSE u.checkTimes[Len(u.checkTimes)]]

\* an update check that never records when it ran
checkForUpdatesUnthrottled(u) ==
  [u EXCEPT !.checkTimes = Append(@, u.now), !.fetching = @ + 1]

\* checkForUpdates() up to its first await: return inside the interval, else
\* set lastUpdateCheck and start the fetch of the latest version
checkForUpdates(u) ==
  IF u.now - u.lastUpdateCheck < UPDATE_CHECK_INTERVAL THEN u
  ELSE [u EXCEPT !.lastUpdateCheck = u.now,
                 !.checkTimes = Append(@, u.now),
                 !.fetching = @ + 1]

\* ---------------------------------------------------------------- the bridge
\* PtyHandler.kill(): try { ptyProcess.kill() } catch {}.  SIGHUP ends a live
\* process; on a process that is gone the call throws and is swallowed.  A
\* tmux command the killed client had not yet got handled by the server
\* either dies with the client (keep = FALSE) or is already on its way to the
\* server (keep = TRUE).
kill(r, keep) ==
  IF Alive(r)
  THEN [r EXCEPT !.proc = "dead", !.at = NoName, !.queued = r.queued /\ keep]
  ELSE r

KeepChoices(r) == IF r.proc = "pending" /\ r.queued THEN BOOLEAN ELSE {FALSE}

\* resize with the check of the dimensions left out
resizeUnchecked(r, cols, rows) ==
  IF Alive(r) THEN [r EXCEPT !.cols = cols, !.rows = rows] ELSE r

\* PtyHandler.resize(cols, rows): try { ptyProcess.resize(cols, rows) } catch.
\* node-pty throws on a non-positive dimension and on a process that is gone,
\* before it changes anything; the error is logged and swallowed.
resize(r, cols, rows) ==
  IF Alive(r) /\ cols > 0 /\ rows > 0
  THEN [r EXCEPT !.cols = cols, !.rows = rows]
  ELSE r

\* PtyHandler.write(data): ptyProcess.write(data); the model records the call
\* and the session the process is attached to at that moment.
write(r, data) ==
  [r EXCEPT !.written = Append(r.written, [data |-> data, to |-> r.at, proc |-> r.proc])]

\* the model's budgets: what has been written to bridges and what the
\* bridges have produced as output
RECURSIVE SumOver(_, _, _)
SumOver(cn, cs, field) ==
  IF cs = {} THEN 0
  ELSE LET c == CHOOSE x \in cs : TRUE
       IN (IF field = "written" THEN Len(cn[c].written)
           ELSE cn[c].produced)
          + SumOver(cn, cs \ {c}, field)
Writes(cn) == SumOver(cn, Conns, "written")
Chunks(cn) == SumOver(cn, Conns, "produced")

\* the clients attached to a session that goes away lose their process
Detach(cn, gone) ==
  [c \in Conns |->
     IF cn[c].proc = "attached" /\ cn[c].at \in gone
     THEN [cn[c] EXCEPT !.proc = "dead", !.at = NoName]
     ELSE cn[c]]

\* ws.close(): starts the closing handshake of an open socket
wsClose(r) == IF r.ws = "OPEN" THEN [r EXCEPT !.ws = "CLOSING"] ELSE r

\* ws.send(JSON.stringify(m))
wsSend(r, m) == [r EXCEPT !.sent = Append(r.sent, m)]

\* an output handler that sends every chunk twice
onDataTwice(r, data) ==
  IF r.ws = "OPEN"
  THEN wsSend(wsSend(r, [type |-> "output", data |-> data]),
              [type |-> "output", data |-> data])
  ELSE r

\* pty.onData(data => { if (ws.readyState === OPEN) ws.send({type:'output',data}) })
onData(r, data) ==
  IF r.ws = "OPEN" THEN wsSend(r, [type |-> "output", data |-> data]) ELSE r

\* an exit handler that reports the exit as an error
onExitError(r) ==
  IF r.ws = "OPEN"
  THEN wsClose(wsSend(r, [type |-> "error", message |-> "PTY exited"]))
  ELSE r

\* an exit handler that leaves the socket open
onExitIgnore(r) == r

\* pty.onExit(() => { if (ws.readyState === OPEN) ws.close() })
onExit(r) == wsClose(r)

\* if (exitCallback) exitCallback(): the bridge invokes its exit subscriber;
\* an exit event that finds none is dropped
exitCallback(r) ==
  IF r.exitCallback THEN onExit([r EXCEPT !.exits = @ + 1])
  ELSE [r EXCEPT !.unheard = @ + 1]

\* if (dataCallback) dataCallback(data): the bridge hands a chunk to its
\* output subscriber
emit(r, data) ==
  IF r.dataCallback THEN onData([r EXCEPT !.produced = @ + 1], data)
  ELSE [r EXCEPT !.produced = @ + 1, !.unheard = @ + 1]

\* ------------------------------------------------------- the echo substitute
\* Text is a sequence of characters; ESC, BS, DEL, ETX (Ctrl+C) and EOT
\* (Ctrl+D) stand for the control characters of those names, "\f" is Ctrl+L.
CRLF ==
  <<"\r", "\n">>
PromptText ==
  <<"ESC", "[", "3", "2", "m", "e", "c", "h", "o", "-", "t", "e", "r", "m",
  "i", "n", "a", "l", "ESC", "[", "0", "m", " ", "$", " ">>
ClearText ==
  <<"ESC", "[", "2", "J", "ESC", "[", "H">>
BackspaceText ==
  <<"BS", " ", "BS">>
InterruptText ==
  <<"^", "C", "\r", "\n">>
EofText ==
  <<"\r", "\n", "e", "x", "i", "t", "\r", "\n">>
HelpText ==
  <<"A", "v", "a", "i", "l", "a", "b", "l", "e", " ", "c", "o", "m", "m",
  "a", "n", "d", "s", ":", " ", "h", "e", "l", "p", ",", " ", "e", "c", "h",
  "o", ",", " ", "c", "l", "e", "a", "r", ",", " ", "d", "a", "t", "e", ",",
  " ", "w", "h", "o", "a", "m", "i", ",", " ", "e", "x", "i", "t", "\r",
  "\n">>
WhoamiText ==
  <<"e", "c", "h", "o", "-", "u", "s", "e", "r", "\r", "\n">>
GoodbyeText ==
  <<"G", "o", "o", "d", "b", "y", "e", "!", "\r", "\n">>
NotFoundText ==
  <<"ESC", "[", "3", "3", "m", "e", "c", "h", "o", "-", "t", "e", "r", "m",
  "i", "n", "a", "l", ":", "ESC", "[", "0", "m", " ", "c", "o", "m", "m",
  "a", "n", "d", " ", "n", "o", "t", " ", "f", "o", "u", "n", "d", ":", 
  " ">>
\* new Date().toString(): one reading of the clock
DateText ==
  <<"T", "h", "u", " ", "O", "c", "t", " ", "2", "9", " ", "2", "0", "2",
  "6", " ", "0", "6", ":", "0", "0", ":", "0", "0", " ", "G", "M", "T", "+",
  "0", "0", "0", "0", " ", "(", "C", "o", "o", "r", "d", "i", "n", "a", "t",
  "e", "d", " ", "U", "n", "i", "v", "e", "r", "s", "a", "l", " ", "T", "i",
  "m", "e", ")">>
CmdHelp ==
  <<"h", "e", "l", "p">>
CmdEcho ==
  <<"e", "c", "h", "o", " ">>
CmdClear ==
  <<"c", "l", "e", "a", "r">>
CmdDate ==
  <<"d", "a", "t", "e">>
CmdWhoami ==
  <<"w", "h", "o", "a", "m", "i">>
CmdExit ==
  <<"e", "x", "i", "t">>

ControlChars == {"ESC", "BS", "DEL", "ETX", "EOT", "\r", "\n", "\f", "\t"}

\* String.prototype.trim() on text whose only white space is the blank
RECURSIVE Trim(_)
Trim(s) ==
  IF s = <<>> THEN s
  ELSE IF Head(s) = " " THEN Trim(Tail(s))
  ELSE IF s[Len(s)] = " " THEN Trim(SubSeq(s, 1, Len(s) - 1))
  ELSE s

\* a command handler that answers every line with the prompt alone
handleCommandSilent(r) == emit([r EXCEPT !.buffer = <<>>], PromptText)

\* EchoPtyHandler.handleCommand()
handleCommand(r) ==
  LET cmd == Trim(r.buffer)
      r1 == emit([r EXCEPT !.buffer = <<>>], CRLF)
  IN IF cmd = CmdExit
     THEN exitCallback(emit(r1, GoodbyeText))
     ELSE LET r2 ==
                IF cmd = CmdHelp THEN emit(r1, HelpText)
                ELSE IF StartsWith(cmd, CmdEcho)
                     THEN emit(r1, SubSeq(cmd, 6, Len(cmd)) \o CRLF)
                ELSE IF cmd = CmdClear THEN emit(r1, ClearText)
                ELSE IF cmd = CmdDate THEN emit(r1, DateText \o CRLF)
                ELSE IF cmd = CmdWhoami THEN emit(r1, WhoamiText)
                ELSE IF cmd # <<>> THEN emit(r1, NotFoundText \o cmd \o CRLF)
                ELSE r1
          IN emit(r2, PromptText)

\* EchoPtyHandler.write(data): one character of the loop
EchoChar(r, char) ==
  IF char \in {"\r", "\n"} THEN handleCommand(r)
  ELSE IF char \in {"DEL", "BS"}
       THEN IF Len(r.buffer) > 0
            THEN emit([r EXCEPT !.buffer = SubSeq(@, 1, Len(@) - 1)], BackspaceText)
            ELSE r
  ELSE IF char = "ETX"
       THEN emit([r EXCEPT !.buffer = <<>>], InterruptText \o PromptText)
  ELSE IF char = "EOT" THEN exitCallback(emit(r, EofText))
  ELSE IF char = "\f" THEN emit(r, ClearText \o PromptText \o r.buffer)
  ELSE IF char \notin ControlChars
       THEN emit([r EXCEPT !.buffer = Append(@, char)], <<char>>)
  ELSE r

\* EchoPtyHandler.write(data)
RECURSIVE EchoLoop(_, _)
EchoLoop(r, data) ==
  IF data = <<>> THEN r ELSE EchoLoop(EchoChar(r, Head(data)), Tail(data))

EchoWrite(r, data) ==
  EchoLoop([r EXCEPT !.written =
              Append(r.written, [data |-> data, to |-> r.at, proc |-> r.proc])],
           data)

\* EchoPtyHandler.resize(): empty
EchoResize(r, cols, rows) == r

\* EchoPtyHandler.kill(): if (this.exitCallback) this.exitCallback()
EchoKill(r) == exitCallback(r)

\* new EchoPtyHandler(): no process; the constructor arms the prompt timer
EchoPtyHandler(r) ==
  [r EXCEPT !.pty = TRUE, !.cmd = "echo", !.proc = "echo", !.promptDue = TRUE]

\* a bridge that ignores every resize
ptyResizeNone(r, cols, rows) == r

\* the calls of the connection handler on its bridge, real or echo
ptyWrite(r, data) == IF r.cmd = "echo" THEN EchoWrite(r, data) ELSE write(r, data)
ptyResize(r, cols, rows) ==
  IF r.cmd = "echo" THEN EchoResize(r, cols, rows) ELSE resize(r, cols, rows)
ptyKill(r, keep) == IF r.cmd = "echo" THEN EchoKill(r) ELSE kill(r, keep)

\* ------------------------------------------------------------------ warmup
\* execSync(`tmux new-session -d -s sandbox-default`) on a name that is free
newDefaultSession(sess) == sess \cup {DerivedName(DefaultId)}

\* ensureDefaultSession() with no step of the tmux server between its calls:
\* create sandbox-default when has-session fails, then one
\* `tmux set -g mouse on` whose failure is swallowed.
ensureDefaultSession(t) ==
  IF ~t.useTmux THEN t
  ELSE LET sessionName == DerivedName(DefaultId)
           s1 == IF tmuxSessionExists(t.sessions, sessionName)
                 THEN t.sessions
                 ELSE newDefaultSession(t.sessions)
       IN IF t.modeFails > 0
          THEN [t EXCEPT !.sessions = s1, !.modeFails = t.modeFails - 1]
          ELSE [t EXCEPT !.sessions = s1, !.mouse = TRUE]

Tmux == [useTmux |-> useTmux, sessions |-> sessions, mouse |-> mouse,
         modeFails |-> modeFails]

\* --------------------------------------------------------------- connection
\* a spawn that never looks for an existing session
SpawnCommandAlwaysNew(sess, tmuxOk, sessionId) ==
  IF tmuxOk THEN "new-session" ELSE "shell"

\* createPtyHandler(sessionId): the command line of the process to spawn
SpawnCommand(sess, tmuxOk, sessionId) ==
  IF tmuxOk
  THEN IF tmuxSessionExists(sess, DerivedName(sessionId))
       THEN "attach-session"
       ELSE "new-session"
  ELSE "shell"

\* createPtyHandler(sessionId): the bridge of a spawned process, or the
\* sentinel (pty = FALSE) when pty.spawn throws
createPtyHandler(r, sess, tmuxOk, sessionId, spawnOk) ==
  IF spawnOk
  THEN LET command == SpawnCommand(sess, tmuxOk, sessionId)
       IN [r EXCEPT !.pty = TRUE,
                    !.cmd = command,
                    !.proc = IF command = "shell" THEN "attached" ELSE "pending",
                    !.queued = (command # "shell"),
                    !.cols = DefaultCols, !.rows = DefaultRows]
  ELSE [r EXCEPT !.pty = FALSE]

\* const pty = ECHO_MODE ? new EchoPtyHandler() : createPtyHandler(sessionId)
NewBridge(r, echo, sess, tmuxOk, sessionId, spawnOk) ==
  IF echo THEN EchoPtyHandler(r)
  ELSE createPtyHandler(r, sess, tmuxOk, sessionId, spawnOk)

\* pty.onData(...); pty.onExit(...): the connection handler sets the two
\* subscribers of its bridge
Subscribe(r) == [r EXCEPT !.dataCallback = TRUE, !.exitCallback = TRUE]

\* a connection handler that leaves the socket open and silent without a bridge
OnConnectionSilent(r, echo, sess, tmuxOk, sessionId, spawnOk) ==
  LET r1 == NewBridge([r EXCEPT !.sid = sessionId, !.ws = "OPEN"],
                      echo, sess, tmuxOk, sessionId, spawnOk)
  IN IF ~r1.pty THEN r1 ELSE Subscribe(r1)

\* a connection handler that returns after the spawn and sets the subscribers
\* of the bridge in a later step that never comes
OnConnectionUnwired(r, echo, sess, tmuxOk, sessionId, spawnOk) ==
  LET r1 == NewBridge([r EXCEPT !.sid = sessionId, !.ws = "OPEN"],
                      echo, sess, tmuxOk, sessionId, spawnOk)
  IN IF ~r1.pty
     THEN wsClose(wsSend(r1, [type |-> "error", message |-> "Failed to create PTY"]))
     ELSE r1

\* wss.on('connection'): spawn the bridge; without one, send one error and
\* close, registering no handler; with one, set its subscribers before the
\* handler returns
OnConnection(r, echo, sess, tmuxOk, sessionId, spawnOk) ==
  LET r1 == NewBridge([r EXCEPT !.sid = sessionId, !.ws = "OPEN"],
                      echo, sess, tmuxOk, sessionId, spawnOk)
  IN IF ~r1.pty
     THEN wsClose(wsSend(r1, [type |-> "error", message |-> "Failed to create PTY"]))
     ELSE Subscribe(r1)

\* upgrade requests: the path, and the session parameter of the query
\* ({}: no such parameter, {NoId}: the empty string)
TerminalPath == "/ws/terminal"
Paths == {TerminalPath, "/ws/terminal/", "/"}
SessionParams == {{}} \cup {{s} : s \in SessionIds \cup {NoId}}
\* the Host header of the request, as a sequence of characters
GoodHost == <<"g", "w">>
BadHost == <<"a", " ", "b">>
Hosts == {GoodHost, BadHost}
Requests == [path : Paths, session : SessionParams, host : Hosts]

\* new URL(request.url, `http://${request.headers.host}`) throws a TypeError
\* on a host that is no host name
UrlParses(host) == \A i \in 1..Len(host) : host[i] # " "

\* server.on('upgrade'), first line: the listener throws, nothing catches it
UpgradeThrows(host) == ~UrlParses(host)

\* an upgrade handler that takes every path
PathAcceptedAny(path) == TRUE

\* if (url.pathname !== '/ws/terminal') { socket.destroy(); return }
PathAccepted(path) == path = TerminalPath

\* url.searchParams.get('session') || 'default'
UpgradeSessionId(session) ==
  IF session = {} \/ session = {NoId} THEN DefaultId
  ELSE CHOOSE s \in session : TRUE

\* the tmux clients whose command the server has not handled yet
PendingClients(cn) == {c \in Conns : cn[c].proc = "pending" /\ cn[c].queued}

\* The process ends: the operating system closes every socket and every pty,
\* so the spawned processes get SIGHUP and nobody is left to hear them exit;
\* the timers of the process are gone with it.  The command of a client that
\* was still pending dies with the client, unless it is already on its way to
\* the tmux server (the clients in keeps).
ProcessExit(cn, keeps) ==
  [c \in Conns |->
     [cn[c] EXCEPT !.ws = IF @ = "NONE" THEN @ ELSE "CLOSED",
                   !.proc = IF @ \in {"pending", "attached", "dead"} THEN "exited" ELSE @,
                   !.queued = IF c \in PendingClients(cn) THEN c \in keeps ELSE @,
                   !.promptDue = FALSE,
                   !.at = NoName]]

\* createPtyHandler(sessionId): the sessions its has-session call leaves
\* (the echo substitute and the plain shell call no tmux)
createPtyHandlerSessions(sess, echo, tmuxOk, sessionId) ==
  IF ~echo /\ tmuxOk
  THEN tmuxSessionExistsSessions(sess, DerivedName(sessionId))
  ELSE sess

\* server.on('upgrade') and, for an accepted request, wss.on('connection').
\* A request whose URL does not parse throws out of the listener: the
\* uncaught exception ends the process (systemd starts it again).
Connect(c, req, spawnOk) ==
  /\ started
  /\ Idle
  /\ (~UpgradeThrows(req.host) /\ PathAccepted(req.path)) =>
        /\ conn[c].ws = "NONE"
        /\ \A d \in Conns : d < c => conn[d].ws # "NONE"
  /\ IF UpgradeThrows(req.host)
     THEN /\ started' = FALSE
          /\ \E keeps \in SUBSET PendingClients(conn) :
               conn' = ProcessExit(conn, keeps)
          /\ upd' = RestartedUpdate(upd)
          /\ sessions' = sessions
          /\ last' = Did("upgrade-crash", 0)
     ELSE IF PathAccepted(req.path)
     THEN LET sessionId == UpgradeSessionId(req.session)
              left == createPtyHandlerSessions(sessions, echoMode, useTmux, sessionId)
          IN /\ started' = started
             /\ sessions' = left
             /\ conn' = Detach([conn EXCEPT ![c] =
                          OnConnection(conn[c], echoMode, sessions, useTmux,
                                       sessionId, spawnOk)],
                        sessions \ left)
             /\ last' = [Did("connect", c) EXCEPT !.path = req.path,
                                                  !.session = req.session]
             /\ upd' = checkForUpdates(upd)
     ELSE /\ started' = started
          /\ conn' = conn
          /\ sessions' = sessions
          /\ last' = Did("reject", 0)
          /\ upd' = upd
  /\ mouse' = ServerOption(sessions', mouse)
  /\ UNCHANGED <<rst, useTmux, echoMode, sessionMouse, modeFails>>

\* ------------------------------------------------------------- tmux server
\* The tmux server handles the command of a spawned client:
\*   new-session -s name     fails on a duplicate name, else creates the
\*                           session and attaches the client to it
\*   attach-session -t name  attaches to the session the target resolves to,
\*                           fails when it resolves to none
\* A client whose command fails exits.  A client killed before this step
\* (proc = "dead") is not attached, but its new-session still creates.
TmuxRun(c) ==
  LET r == conn[c]
      name == DerivedName(r.sid)
      found == TmuxTarget(sessions, name)
  IN /\ r.queued
     /\ IF r.cmd = "new-session"
        THEN IF name \in sessions
             THEN /\ sessions' = sessions
                  /\ conn' = [conn EXCEPT ![c] =
                        [r EXCEPT !.queued = FALSE,
                                  !.proc = IF r.proc = "pending" THEN "dead" ELSE r.proc]]
             ELSE /\ sessions' = sessions \cup {name}
                  /\ conn' = [conn EXCEPT ![c] =
                        IF r.proc = "pending"
                        THEN [r EXCEPT !.queued = FALSE, !.proc = "attached", !.at = name]
                        ELSE [r EXCEPT !.queued = FALSE]]
        ELSE /\ sessions' = sessions
             /\ conn' = [conn EXCEPT ![c] =
                   IF r.proc # "pending" THEN [r EXCEPT !.queued = FALSE]
                   ELSE IF found = {}
                        THEN [r EXCEPT !.queued = FALSE, !.proc = "dead"]
                        ELSE [r EXCEPT !.queued = FALSE, !.proc = "attached",
                                       !.at = CHOOSE n \in found : TRUE]]
     /\ last' = Did("tmux", c)
     /\ UNCHANGED <<rst, started, useTmux, echoMode, sessionMouse, upd, mouse, modeFails>>

\* The shell of a session exits (the user typed exit, with or without a
\* client attached at that moment): tmux destroys the session and its
\* clients exit.
ShellExit(n) ==
  /\ n \in sessions
  /\ sessions' = sessions \ {n}
  /\ conn' = Detach(conn, {n})
  /\ mouse' = ServerOption(sessions', mouse)
  /\ last' = Did("shell-exit", 0)
  /\ UNCHANGED <<rst, started, useTmux, echoMode, sessionMouse, upd, modeFails>>

\* The bridge process ends on its own: without tmux it is the shell itself,
\* with tmux it is a client, which ends when the user detaches it (its
\* session lives on).
ProcExit(c) ==
  /\ conn[c].proc = "attached"
  /\ conn' = [conn EXCEPT ![c].proc = "dead", ![c].at = NoName]
  /\ last' = Did("proc-exit", c)
  /\ UNCHANGED <<rst, started, useTmux, echoMode, sessionMouse, upd, sessions, mouse, modeFails>>

\* ------------------------------------------------------------ bridge events
\* ptyProcess.onData: the next chunk of output of a process is delivered; a
\* process that has ended may have written before it did (the message of a
\* failed command, `[exited]`), and that is delivered before its exit.  A
\* chunk is named by its place in the output of its process.
PtyData(c) ==
  /\ Idle
  /\ conn[c].proc \in {"attached", "dead"}
  /\ Chunks(conn) < MaxChunks
  /\ conn' = [conn EXCEPT ![c] = emit(conn[c], conn[c].produced + 1)]
  /\ last' = Did("data", c)
  /\ UNCHANGED <<rst, started, useTmux, echoMode, sessionMouse, upd, sessions, mouse, modeFails>>

\* ptyProcess.onExit: the exit event of a terminated process is delivered
PtyExit(c) ==
  /\ Idle
  /\ conn[c].proc = "dead"
  /\ conn' = [conn EXCEPT ![c] = exitCallback([conn[c] EXCEPT !.proc = "exited"])]
  /\ last' = Did("exit", c)
  /\ UNCHANGED <<rst, started, useTmux, echoMode, sessionMouse, upd, sessions, mouse, modeFails>>

\* setTimeout(() => this.emit(prompt), 100) of the EchoPtyHandler constructor
EchoPrompt(c) ==
  /\ Idle
  /\ conn[c].promptDue
  /\ conn' = [conn EXCEPT ![c] =
        emit([conn[c] EXCEPT !.promptDue = FALSE], CRLF \o PromptText)]
  /\ last' = Did("echo-prompt", c)
  /\ UNCHANGED <<rst, started, useTmux, echoMode, sessionMouse, upd, sessions, mouse, modeFails>>

\* ----------------------------------------------------------- client messages
\* a message handler for which a parse failure is fatal
OnMessageFatalGarbage(r, m, keep) ==
  IF m.type = "malformed" THEN wsClose([r EXCEPT !.garbage = TRUE])
  ELSE IF m.type = "input" THEN ptyWrite(r, m.data)
  ELSE IF m.type = "resize"
       THEN IF Truthy(m.cols) /\ Truthy(m.rows)
            THEN ptyResize(r, Num(m.cols), Num(m.rows))
            ELSE r
  ELSE IF m.type = "close-session"
       THEN wsClose([ptyKill(r, keep) EXCEPT !.closeSession = TRUE])
  ELSE r

\* case 'close-session', up to the call of killTmuxSession: pty.kill()
OnCloseSessionPtyKill(r, keep) ==
  [ptyKill(r, keep) EXCEPT !.closeSession = TRUE]

\* ws.on('message'): the effect on the connection itself
OnMessage(r, m, keep) ==
  IF m.type = "malformed" THEN [r EXCEPT !.garbage = TRUE]
  ELSE IF m.type = "input" THEN ptyWrite(r, m.data)
  ELSE IF m.type = "resize"
       THEN IF Truthy(m.cols) /\ Truthy(m.rows)
            THEN ptyResize(r, Num(m.cols), Num(m.rows))
            ELSE r
  ELSE IF m.type = "close-session"
       THEN wsClose([ptyKill(r, keep) EXCEPT !.closeSession = TRUE])
  ELSE r

\* ws.on('message'): the effect on the tmux sessions
OnMessageSessions(sess, sessionId, m) ==
  IF m.type = "close-session" THEN killTmuxSession(sess, sessionId) ELSE sess

\* A close-session for an identifier with shell syntax waits inside execSync
\* after the first command of its line: the bridge is killed, the socket is
\* still open, and the command after the `;` comes next (InjectedKill).
Message(c, m, keep) ==
  /\ Idle
  /\ conn[c].pty
  /\ conn[c].ws \in {"OPEN", "CLOSING"}
  /\ m.type = "input" => Writes(conn) < MaxWrites
  /\ (conn[c].cmd = "echo" /\ m.type = "close-session") => conn[c].exits < MaxExits
  /\ IF m.type = "close-session" /\ Injects(conn[c].sid)
     THEN /\ sessions' = killTmuxSessionFirst(sessions, conn[c].sid)
          /\ conn' = Detach([conn EXCEPT ![c] =
                               OnCloseSessionPtyKill(conn[c], keep)],
                            sessions \ sessions')
          /\ rst' = [pc |-> "line", todo |-> <<conn[c].sid>>,
                     by |-> "close-session", c |-> c]
          /\ last' = Did("close-session-first", c)
     ELSE /\ sessions' = OnMessageSessions(sessions, conn[c].sid, m)
          /\ conn' = Detach([conn EXCEPT ![c] = OnMessage(conn[c], m, keep)],
                            sessions \ sessions')
          /\ rst' = rst
          /\ last' = [Did(m.type, c) EXCEPT
                        !.cols = IF m.type = "resize" THEN m.cols ELSE {},
                        !.rows = IF m.type = "resize" THEN m.rows ELSE {}]
  /\ mouse' = ServerOption(sessions', mouse)
  /\ UNCHANGED <<started, useTmux, echoMode, sessionMouse, upd, modeFails>>

\* The command after the `;` of a kill line runs, execSync returns and the
\* handler goes on: close-session calls ws.close(), the restart takes the
\* next identifier of its list.
InjectedKill ==
  /\ rst.pc = "line"
  /\ sessions' = killTmuxSessionInjected(sessions, Head(rst.todo))
  /\ mouse' = ServerOption(sessions', mouse)
  /\ IF rst.by = "close-session"
     THEN /\ conn' = Detach([conn EXCEPT ![rst.c] = wsClose(conn[rst.c])],
                            sessions \ sessions')
          /\ rst' = NoRestart
          /\ last' = Did("close-session", rst.c)
     ELSE /\ conn' = Detach(conn, sessions \ sessions')
          /\ rst' = [rst EXCEPT
                       !.pc = IF Tail(rst.todo) = <<>> THEN "has" ELSE "kill",
                       !.todo = Tail(rst.todo)]
          /\ last' = Did("restart-kill", 0)
  /\ UNCHANGED <<started, useTmux, echoMode, sessionMouse, upd, modeFails>>

\* ------------------------------------------------------------ transport end
\* a close handler that leaves the bridge alone
OnCloseNoKill(r, keep) == r

\* ws.on('close'): clearInterval(heartbeatTimer); pty.kill()
OnClose(r, keep) == ptyKill(r, keep)

\* an error handler that leaves the bridge alone
OnErrorNoKill(r, keep) == r

\* ws.on('error'): clearInterval(heartbeatTimer); pty.kill()
OnError(r, keep) == ptyKill(r, keep)

\* a teardown that also kills the session of the connection
OnCloseSessionsKill(sess, sessionId) == killTmuxSession(sess, sessionId)

\* ws.on('close') and ws.on('error'): the effect on the tmux sessions (none)
OnCloseSessions(sess, sessionId) == sess

\* the socket is closed; a connection without a bridge has no handler
WsClose(c, keep) ==
  /\ Idle
  /\ conn[c].ws \in {"OPEN", "CLOSING", "ERRORED"}
  /\ sessions' = IF conn[c].pty THEN OnCloseSessions(sessions, conn[c].sid) ELSE sessions
  /\ conn' = Detach([conn EXCEPT ![c] =
                 IF conn[c].pty THEN OnClose([conn[c] EXCEPT !.ws = "CLOSED"], keep)
                 ELSE [conn[c] EXCEPT !.ws = "CLOSED"]],
               sessions \ sessions')
  /\ last' = Did("ws-close", c)
  /\ UNCHANGED <<rst, started, useTmux, echoMode, sessionMouse, upd, mouse, modeFails>>

\* the socket fails: ws moves to CLOSING, emits 'error', and 'close' follows
WsError(c, keep) ==
  /\ Idle
  /\ conn[c].ws \in {"OPEN", "CLOSING"}
  /\ conn[c].pty
  /\ sessions' = OnCloseSessions(sessions, conn[c].sid)
  /\ conn' = Detach([conn EXCEPT ![c] = OnError([conn[c] EXCEPT !.ws = "ERRORED"], keep)],
               sessions \ sessions')
  /\ last' = Did("ws-error", c)
  /\ UNCHANGED <<rst, started, useTmux, echoMode, sessionMouse, upd, mouse, modeFails>>

\* The socket of a connection without a bridge fails (the client sends an
\* invalid frame): the handler returned before ws.on('error') was reached,
\* so ws emits 'error' with no listener, which Node turns into an uncaught
\* exception that ends the process (systemd starts it again).
WsErrorUnhandled(c) ==
  /\ started
  /\ Idle
  /\ conn[c].ws \in {"OPEN", "CLOSING"}
  /\ ~conn[c].pty
  /\ started' = FALSE
  /\ \E keeps \in SUBSET PendingClients(conn) : conn' = ProcessExit(conn, keeps)
  /\ upd' = RestartedUpdate(upd)
  /\ last' = Did("crash", c)
  /\ UNCHANGED <<rst, useTmux, echoMode, sessionMouse, sessions, mouse, modeFails>>

\* ------------------------------------------------------------------- time
\* time passes
Tick ==
  /\ upd.now < UPDATE_CHECK_INTERVAL + MaxTicks * TickMs
  /\ upd' = [upd EXCEPT !.now = @ + TickMs]
  /\ last' = Did("tick", 0)
  /\ UNCHANGED <<rst, started, useTmux, echoMode, sessionMouse, sessions, mouse, modeFails, conn>>

\* a heartbeat that closes the connection it belongs to
OnHeartbeatClose(r) == wsClose(r)

\* setInterval(() => { if (ws.readyState === OPEN) reportActivity() }, ...):
\* the effect on the connection (none)
OnHeartbeat(r) == r

\* the heartbeat timer of a connection fires; close and error clear it
Heartbeat(c) ==
  /\ Idle
  /\ conn[c].pty
  /\ conn[c].ws \in {"OPEN", "CLOSING"}
  /\ conn' = [conn EXCEPT ![c] = OnHeartbeat(conn[c])]
  /\ last' = Did("heartbeat", c)
  /\ UNCHANGED <<rst, started, useTmux, echoMode, sessionMouse, upd, sessions, mouse, modeFails>>

\* the fetch of the latest version settles: it fails or is not ok ("fail"),
\* names the local version ("same"), or names another one, with the pull
\* script missing ("new-noscript") or present ("new": the script is spawned)
FetchResults == {"fail", "same", "new-noscript", "new"}
FetchDone(res) ==
  /\ started
  /\ Idle
  /\ upd.fetching > 0
  /\ upd' = IF res = "new"
            THEN [upd EXCEPT !.fetching = @ - 1, !.pulls = @ + 1, !.pulling = @ + 1]
            ELSE [upd EXCEPT !.fetching = @ - 1]
  /\ last' = Did("fetch-done", 0)
  /\ UNCHANGED <<rst, started, useTmux, echoMode, sessionMouse, sessions, mouse, modeFails, conn>>

\* child.on('close'): code 0 ends the process (process.exit(0), systemd
\* starts it again); another code is logged
PullDone(code) ==
  /\ started
  /\ Idle
  /\ upd.pulling > 0
  /\ IF code = 0
     THEN /\ started' = FALSE
          /\ \E keeps \in SUBSET PendingClients(conn) :
               conn' = ProcessExit(conn, keeps)
          /\ upd' = RestartedUpdate(upd)
          /\ last' = Did("update-exit", 0)
     ELSE /\ started' = started
          /\ conn' = conn
          /\ upd' = [upd EXCEPT !.pulling = @ - 1]
          /\ last' = Did("pull-failed", 0)
  /\ UNCHANGED <<rst, useTmux, echoMode, sessionMouse, sessions, mouse, modeFails>>

\* GET /api/sessions: res.json({ sessions: listTmuxSessions() })
ListSessions ==
  /\ started
  /\ Idle
  /\ last' = [Did("list", 0) EXCEPT !.resp = listTmuxSessions(sessions)]
  /\ UNCHANGED <<rst, started, useTmux, echoMode, sessionMouse, upd, sessions, mouse, modeFails, conn>>

\* ------------------------------------------------------------------ restart
\* tmux list-sessions prints the sessions in the order of their names
ListOrder == <<IdA, IdAB, DefaultId, IdInject>>
InListOrder(ids) ==
  LET Listed(id) == id \in ids
  IN SelectSeq(ListOrder, Listed)

\* POST /api/sessions/restart with no step of the tmux server between its
\* calls: kill every listed session, then warm up again
RestartSessions(t) ==
  LET RECURSIVE KillAll(_, _)
      KillAll(sess, todo) ==
        IF todo = <<>> THEN sess
        ELSE KillAll(killTmuxSession(sess, Head(todo)), Tail(todo))
      left == KillAll(t.sessions, InListOrder(listTmuxSessions(t.sessions)))
  IN ensureDefaultSession([t EXCEPT !.sessions = left,
                                    !.mouse = ServerOption(left, t.mouse)])

\* The handler is a sequence of synchronous tmux commands; the tmux server
\* handles the commands of other clients between two of them, the gateway
\* handles nothing until the handler returns.
\* const sessions = listTmuxSessions(): without tmux the list is empty and
\* ensureDefaultSession returns at once
RestartList ==
  /\ started
  /\ Idle
  /\ IF useTmux
     THEN LET ids == InListOrder(listTmuxSessions(sessions))
          IN /\ rst' = [pc |-> IF ids = <<>> THEN "has" ELSE "kill", todo |-> ids,
                        by |-> "restart", c |-> 0]
             /\ last' = Did("restart-list", 0)
     ELSE /\ rst' = rst
          /\ last' = Did("restart", 0)
  /\ UNCHANGED <<started, useTmux, echoMode, sessionMouse, upd, sessions, mouse,
                 modeFails, conn>>

\* for (const sessionId of sessions) killTmuxSession(sessionId): one turn
RestartKillOne(sess, sessionId) == killTmuxSession(sess, sessionId)

\* an identifier with shell syntax: the first command of the line only, the
\* command after the `;` comes next (InjectedKill)
RestartKill ==
  /\ rst.pc = "kill"
  /\ IF Injects(Head(rst.todo))
     THEN /\ sessions' = killTmuxSessionFirst(sessions, Head(rst.todo))
          /\ rst' = [rst EXCEPT !.pc = "line"]
          /\ last' = Did("restart-kill-first", 0)
     ELSE /\ sessions' = RestartKillOne(sessions, Head(rst.todo))
          /\ rst' = [rst EXCEPT
                       !.pc = IF Tail(rst.todo) = <<>> THEN "has" ELSE "kill",
                       !.todo = Tail(rst.todo)]
          /\ last' = Did("restart-kill", 0)
  /\ conn' = Detach(conn, sessions \ sessions')
  /\ mouse' = ServerOption(sessions', mouse)
  /\ UNCHANGED <<started, useTmux, echoMode, sessionMouse, upd, modeFails>>

\* ensureDefaultSession() is a sequence of synchronous tmux commands as
\* well; it is run by the restart handler and by the listen callback (by),
\* and the step that ran last is named after its caller.
StepOps ==
  [restart |-> [has |-> "restart-has", new |-> "restart-new",
                failed |-> "restart-failed", done |-> "restart"],
   startup |-> [has |-> "startup-has", new |-> "startup-new",
                failed |-> "startup-failed", done |-> "startup"]]

\* if (!tmuxSessionExists('sandbox-default'))
EnsureHas(by) ==
  /\ rst.pc = "has"
  /\ rst.by = by
  /\ rst' = [rst EXCEPT !.pc =
               IF tmuxSessionExists(sessions, DerivedName(DefaultId))
               THEN "mouse" ELSE "new"]
  /\ last' = Did(StepOps[by].has, 0)
  /\ UNCHANGED <<started, useTmux, echoMode, sessionMouse, upd, sessions, mouse,
                 modeFails, conn>>

\* execSync(`tmux new-session -d -s sandbox-default`): on a name that exists
\* by now the command fails and execSync throws.  The restart handler
\* catches it and answers 500; nothing catches it in the listen callback, so
\* the process ends with exit code 1 (systemd starts it again).  Either way
\* the mode-set is skipped.
EnsureNew(by) ==
  /\ rst.pc = "new"
  /\ rst.by = by
  /\ IF DerivedName(DefaultId) \in sessions
     THEN /\ sessions' = sessions
          /\ rst' = NoRestart
          /\ last' = Did(StepOps[by].failed, 0)
     ELSE /\ sessions' = newDefaultSession(sessions)
          /\ rst' = [rst EXCEPT !.pc = "mouse"]
          /\ last' = Did(StepOps[by].new, 0)
  /\ UNCHANGED <<started, useTmux, echoMode, sessionMouse, upd, mouse, modeFails, conn>>

\* try { execSync(`tmux set -g mouse on`) } catch {}: fails while the server
\* is not ready, and when no server runs; then the caller goes on: the
\* restart handler answers success, the listen callback returns and the
\* gateway takes requests
EnsureMouse(by) ==
  /\ rst.pc = "mouse"
  /\ rst.by = by
  /\ IF modeFails > 0
     THEN /\ modeFails' = modeFails - 1
          /\ mouse' = mouse
     ELSE /\ modeFails' = modeFails
          /\ mouse' = (sessions # {})
  /\ rst' = NoRestart
  /\ started' = (started \/ by = "startup")
  /\ last' = Did(StepOps[by].done, 0)
  /\ UNCHANGED <<useTmux, echoMode, sessionMouse, upd, sessions, conn>>

RestartHas == EnsureHas("restart")
RestartNew == EnsureNew("restart")
RestartMouse == EnsureMouse("restart")

Restart ==
  \/ RestartList
  \/ RestartKill
  \/ RestartHas
  \/ RestartNew
  \/ RestartMouse

\* ------------------------------------------------------------------ startup
\* server.listen(PORT, '0.0.0.0', () => { ...; ensureDefaultSession() }):
\* if (!hasTmux()) return; without tmux the callback returns at once
StartupWhich ==
  /\ ~started
  /\ Idle
  /\ IF useTmux
     THEN /\ rst' = [pc |-> "has", todo |-> <<>>, by |-> "startup", c |-> 0]
          /\ started' = started
          /\ last' = Did("startup-which", 0)
     ELSE /\ rst' = rst
          /\ started' = TRUE
          /\ last' = Did("startup", 0)
  /\ UNCHANGED <<useTmux, echoMode, sessionMouse, upd, sessions, mouse, modeFails, conn>>

StartupHas == EnsureHas("startup")
StartupNew == EnsureNew("startup")
StartupMouse == EnsureMouse("startup")

Startup ==
  \/ StartupWhich
  \/ StartupHas
  \/ StartupNew
  \/ StartupMouse

\* ----------------------------------------------------------- specification
\* The state before the gateway listens: sessions of an earlier gateway
\* process may be alive in the tmux server.
InitWith(tmuxChoices, sessionChoices, failChoices) ==
  /\ started = FALSE
  /\ useTmux \in tmuxChoices
  /\ sessions \in (IF useTmux THEN sessionChoices ELSE {{}})
  /\ mouse = FALSE
  /\ modeFails \in (IF useTmux THEN failChoices ELSE {0})
  /\ echoMode = FALSE
  /\ sessionMouse = {}
  /\ upd = FreshUpdate(UPDATE_CHECK_INTERVAL)
  /\ conn = [c \in Conns |-> NoConn]
  /\ rst = NoRestart
  /\ last = Did("init", 0)

\* The handlers of the gateway process, and the tmux server handling the
\* command of a spawned client.
NextWith(cs, msgs, reqs) ==
  \/ Startup
  \/ \E c \in cs, req \in reqs, spawnOk \in BOOLEAN : Connect(c, req, spawnOk)
  \/ \E c \in cs : TmuxRun(c)
  \/ \E c \in cs : PtyExit(c)
  \/ \E c \in cs, m \in msgs : \E keep \in KeepChoices(conn[c]) :
       Message(c, m, keep)
  \/ \E c \in cs : \E keep \in KeepChoices(conn[c]) : WsClose(c, keep)
  \/ \E c \in cs : \E keep \in KeepChoices(conn[c]) : WsError(c, keep)

\* What the processes around the gateway do on their own: the shell of a
\* session exits, a tmux client ends, a bridge writes output.
Around(cs) ==
  \/ \E n \in sessions : ShellExit(n)
  \/ \E c \in cs : ProcExit(c)
  \/ \E c \in cs : PtyData(c)

\* Several connections, with the messages that act on the shared sessions.
SharedMessages == {m \in ClientMessages : m.type \in {"input", "close-session"}}
\* the requests of clients that name their session on the terminal path
SharedRequests ==
  {q \in Requests :
     q.path = TerminalPath /\ q.session \notin {{}, {NoId}} /\ q.host = GoodHost}
Init == InitWith(BOOLEAN, {{}}, {0})
Next ==
  \/ NextWith(Conns, SharedMessages, SharedRequests)
  \/ \E c \in Conns : (Chunks(conn) < MaxSharedChunks /\ PtyData(c))
Spec == Init /\ [][Next]_vars

\* One connection, with every kind of message, from every state tmux can be
\* in at the start, and with what the shells and the tmux clients do on their
\* own.
InitOne ==
  \/ InitWith(BOOLEAN, SUBSET AllNames, {0})
  \/ InitWith({TRUE}, {{}}, 1..MaxModeFails)
NextOne ==
  \/ NextWith({1}, ClientMessages, SharedRequests)
  \/ Around({1})
SpecOne == InitOne /\ [][NextOne]_vars

\* One connection, every request, close-session as the only message, the
\* restart-all and the listing, and a tmux server that may hold sessions of
\* an earlier gateway process and one session that is not the gateway's.
ForeignName == <<"main">>
CloseMessages == {m \in ClientMessages : m.type = "close-session"}
InitGate ==
  \/ InitWith(BOOLEAN, SUBSET (AllNames \cup {ForeignName}), {0})
  \/ InitWith({TRUE}, {{}}, 1..MaxModeFails)
NextGate ==
  \/ NextWith({1}, CloseMessages, Requests)
  \/ Around({1})
  \/ Restart
  \/ ListSessions
SpecGate == InitGate /\ [][NextGate]_vars
\* the event loop delivers what is pending: the tmux server handles a
\* spawned client's command, a restart or a warmup that has begun gets the
\* answers of its tmux commands, and an exit event reaches its handler (a
\* restart that runs only delays it, so the fairness is strong); clients and
\* the administrator are free to do nothing
RestartReturns == RestartKill \/ RestartHas \/ RestartNew \/ RestartMouse
StartupReturns == StartupHas \/ StartupNew \/ StartupMouse
SpecGateFair ==
  /\ SpecGate
  /\ WF_vars(TmuxRun(1))
  /\ SF_vars(PtyExit(1))
  /\ WF_vars(RestartReturns)
  /\ WF_vars(StartupReturns)

\* Several connections to a tmux server that holds sessions of an earlier
\* gateway process, with close-session as the only message.
InitPre == InitWith(BOOLEAN, SUBSET AllNames, {0})
NextPre == NextWith(Conns, CloseMessages, SharedRequests)
SpecPre == InitPre /\ [][NextPre]_vars

\* Several connections whose clients misbehave: messages that are not
\* commands, bad sizes, and invalid frames on a connection left without a
\* bridge.
FaultMessages ==
  [type : {"input"}, data : InputData]
    \cup {[type |-> "malformed"], [type |-> "other"],
          [type |-> "resize", cols |-> {0 - 5}, rows |-> {120}]}
NextFault ==
  \/ NextWith(Conns, FaultMessages, SharedRequests)
  \/ \E c \in Conns : WsErrorUnhandled(c)
SpecFault == Init /\ [][NextFault]_vars

\* One connection over time: the clock, the heartbeat timer and the
\* self-update.
NextIdle ==
  \/ NextWith({1}, SharedMessages, SharedRequests)
  \/ Around({1})
  \/ Tick
  \/ Heartbeat(1)
  \/ \E res \in FetchResults : FetchDone(res)
  \/ \E code \in {0, 1} : PullDone(code)
SpecIdle == Init /\ [][NextIdle]_vars

\* The self-update with several connections opening over time.
NextUpdate ==
  \/ Startup
  \/ \E c \in Conns, req \in SharedRequests : Connect(c, req, TRUE)
  \/ Tick
  \/ \E res \in FetchResults : FetchDone(res)
  \/ \E code \in {0, 1} : PullDone(code)
  \/ \E c \in Conns : \E keep \in KeepChoices(conn[c]) : WsClose(c, keep)
SpecUpdate == Init /\ [][NextUpdate]_vars

\* Several connections on tmux sessions that are killed under them, by
\* close-session on another connection or by a restart; the event loop
\* delivers what is pending (a spawned client's command reaches the tmux
\* server, an exit event reaches its handler), clients are free to do nothing.
NextKill ==
  \/ Startup
  \/ \E c \in Conns, req \in SharedRequests, spawnOk \in BOOLEAN : Connect(c, req, spawnOk)
  \/ \E c \in Conns : TmuxRun(c)
  \/ \E c \in Conns : PtyData(c)
  \/ \E c \in Conns : PtyExit(c)
  \/ \E c \in Conns, m \in CloseMessages : \E keep \in KeepChoices(conn[c]) :
       Message(c, m, keep)
  \/ \E c \in Conns : \E keep \in KeepChoices(conn[c]) : WsClose(c, keep)
  \/ Restart
SpecKill == InitWith({TRUE}, {{}}, {0}) /\ [][NextKill]_vars
SpecKillFair ==
  /\ SpecKill
  /\ \A c \in Conns : WF_vars(TmuxRun(c)) /\ SF_vars(PtyExit(c))
  /\ WF_vars(RestartReturns)
  /\ WF_vars(StartupReturns)

\* Several connections whose clients name their sessions with shell syntax
\* or send a Host header that is no host name, with what the shells and the
\* tmux clients do on their own (MaxSharedChunks of output) and the
\* restart-all.
ShellRequests ==
  [path : {TerminalPath}, session : {{IdA}, {IdInject}}, host : Hosts]
NextShell ==
  \/ Startup
  \/ \E c \in Conns, req \in ShellRequests : Connect(c, req, TRUE)
  \/ \E c \in Conns : TmuxRun(c)
  \/ \E c \in Conns : PtyExit(c)
  \/ \E c \in Conns, m \in CloseMessages : \E keep \in KeepChoices(conn[c]) :
       Message(c, m, keep)
  \/ \E c \in Conns : \E keep \in KeepChoices(conn[c]) : WsClose(c, keep)
  \/ \E c \in Conns : \E keep \in KeepChoices(conn[c]) : WsError(c, keep)
  \/ \E n \in sessions : ShellExit(n)
  \/ \E c \in Conns : ProcExit(c)
  \/ \E c \in Conns : (Chunks(conn) < MaxSharedChunks /\ PtyData(c))
  \/ Restart
  \/ InjectedKill
SpecShell == InitWith({TRUE}, {{}}, {0}) /\ [][NextShell]_vars

\* Echo mode: one connection whose bridge is the echo substitute.
EchoInputs ==
  {<<"e", "c", "h", "o", " ", "h", "i", "\n">>,
   <<"e", "c", "h", "o", " ", "a", " ", "b", "\n">>,
   <<"e", "c", "h", "o", " ", "\r">>,
   <<"e", "x", "i", "t", "\r">>,
   <<"h", "e", "l", "p", "\n">>,
   <<"c", "l", "e", "a", "r", "\n">>,
   <<"d", "a", "t", "e", "\n">>,
   <<"w", "h", "o", "a", "m", "i", "\n">>,
   <<" ", "l", "s", " ", "\n">>,
   <<"x", "DEL", "y", "BS", "BS", "\n">>,
   <<"a", "\f", "ETX", "\t">>,
   <<"EOT">>,
   <<"EOT", "e", "x", "i", "t", "\n">>}
EchoMessages ==
  [type : {"input"}, data : EchoInputs]
    \cup {[type |-> "resize", cols |-> {100}, rows |-> {40}],
          [type |-> "close-session"], [type |-> "malformed"]}
InitEcho ==
  /\ started = FALSE
  /\ useTmux \in BOOLEAN
  /\ sessions \in (IF useTmux THEN SUBSET AllNames ELSE {{}})
  /\ mouse = FALSE
  /\ modeFails = 0
  /\ echoMode = TRUE
  /\ sessionMouse = {}
  /\ upd = FreshUpdate(UPDATE_CHECK_INTERVAL)
  /\ conn = [c \in Conns |-> NoConn]
  /\ rst = NoRestart
  /\ last = Did("init", 0)
NextEcho ==
  \/ Startup
  \/ \E req \in Requests : Connect(1, req, TRUE)
  \/ EchoPrompt(1)
  \/ \E m \in EchoMessages : \E keep \in KeepChoices(conn[1]) :
       Message(1, m, keep)
  \/ \E keep \in KeepChoices(conn[1]) : WsClose(1, keep)
  \/ \E keep \in KeepChoices(conn[1]) : WsError(1, keep)
  \/ Restart
SpecEcho == InitEcho /\ [][NextEcho]_vars

\* ==================================================================== claims
Positive(v) == \E n \in v : n > 0
HasError(r) == \E i \in 1..Len(r.sent) : r.sent[i].type = "error"
HasOutput(r) == \E i \in 1..Len(r.sent) : r.sent[i].type = "output"

\* C1: when no session named sandbox-S is alive, a connection opened for S
\* (whose bridge spawns) takes the create branch, so that a session named
\* sandbox-S comes to exist for it.
C1_CreateWhenAbsent ==
  [][\A c \in Conns :
       (last'.op = "connect" /\ last'.c = c /\ useTmux /\ conn'[c].pty
          /\ DerivedName(conn'[c].sid) \notin sessions)
       => conn'[c].cmd = "new-session"]_vars

\* C2: the close or the error of a connection destroys no session, and a
\* connection for S that is opened after another connection for S was closed
\* without close-session, while sandbox-S is alive, takes the attach branch.
C2_Reattach ==
  [][/\ last'.op \in {"ws-close", "ws-error"} => sessions' = sessions
     /\ \A c, d \in Conns :
          (last'.op = "connect" /\ last'.c = c /\ conn'[c].pty /\ d # c
             /\ conn[d].sid = conn'[c].sid /\ conn[d].ws = "CLOSED"
             /\ ~conn[d].closeSession
             /\ DerivedName(conn'[c].sid) \in sessions)
          => conn'[c].cmd = "attach-session"]_vars

\* C3: right after a connection for S has handled close-session, the check
\* tmuxSessionExists(sandbox-S) is false and the connection is no longer open.
C3_CloseSessionTerminal ==
  last.op = "close-session" =>
    /\ ~tmuxSessionExists(sessions, DerivedName(conn[last.c].sid))
    /\ conn[last.c].ws # "OPEN"

\* C4: a session that is alive goes away only in a close-session step, a
\* kill step of the restart-all (either command of the line of such a step)
\* or when its own shell exits; never in a transport close, a transport
\* error or any other step of the gateway.
C4_OnlyExplicitDestroy ==
  [][(\E n \in sessions : n \notin sessions')
       => last'.op \in {"close-session", "close-session-first", "restart-kill",
                        "restart-kill-first", "shell-exit"}]_vars

\* C5: a connection that is closed, or that has failed, has no live bridge
\* process: both teardown paths have killed it.
C5_BridgeDiesWithConnection ==
  \A c \in Conns :
    (conn[c].pty /\ conn[c].ws \in {"CLOSED", "ERRORED"}) => ~Alive(conn[c])

C5_Witness ==
  \E c \in Conns :
    /\ last.op = "ws-close" /\ last.c = c
    /\ conn[c].pty /\ conn[c].ws = "CLOSED" /\ conn[c].proc = "dead"
    /\ ~conn[c].closeSession

\* C6: a malformed message leaves the socket, the bridge process, its
\* geometry and what was written and sent as they were, and an input message
\* handled after it is written to the bridge.
C6_GarbageNotFatal ==
  [][\A c \in Conns :
       /\ (last'.op = "malformed" /\ last'.c = c)
            => conn' = [conn EXCEPT ![c].garbage = TRUE]
       /\ (last'.op = "input" /\ last'.c = c /\ conn[c].garbage)
            => /\ Len(conn'[c].written) = Len(conn[c].written) + 1
               /\ conn'[c].ws = conn[c].ws]_vars

C6_Witness ==
  \E c \in Conns :
    /\ last.op = "input" /\ last.c = c
    /\ conn[c].garbage /\ conn[c].ws = "OPEN" /\ conn[c].proc = "attached"
    /\ Len(conn[c].written) = 1

\* C7: a resize message in which a dimension is missing, zero or negative
\* changes nothing: the geometry of the bridge stays what it was.
C7_BadResizeIgnored ==
  [][(last'.op = "resize" /\ ~(Positive(last'.cols) /\ Positive(last'.rows)))
       => conn' = conn]_vars

C7_Witness ==
  \E c \in Conns :
    /\ last.op = "resize" /\ last.c = c
    /\ last.cols = {0 - 5} /\ last.rows = {120}
    /\ Alive(conn[c])
    /\ conn[c].cols = 120 /\ conn[c].rows = 120

\* C8: when the first two mode-set attempts of the warmup fail and a third
\* would succeed, the mouse mode is on once the warmup is done.
C8_ModeRetries ==
  [][(last'.op = "startup" /\ useTmux /\ modeFails = 2) => mouse']_vars

\* C9: a connection whose bridge could not be spawned got exactly one error
\* message, {"type":"error","message":"Failed to create PTY"}, and nothing
\* else, is closing or closed, and has no process.
C9_SpawnFailure ==
  \A c \in Conns :
    (conn[c].ws # "NONE" /\ ~conn[c].pty)
      => /\ conn[c].sent = <<[type |-> "error", message |-> "Failed to create PTY"]>>
         /\ conn[c].ws \in {"CLOSING", "CLOSED"}
         /\ conn[c].proc = "none" /\ ~conn[c].queued

C9_Witness ==
  \E c \in Conns :
    /\ conn[c].ws = "CLOSED" /\ ~conn[c].pty
    /\ Len(conn[c].sent) = 1 /\ conn[c].sent[1].type = "error"

\* C10: the exit of the bridge process of an open connection closes the
\* connection and sends nothing; no connection with a bridge ever gets an
\* error message.
C10_ExitIsClose ==
  [][\A c \in Conns :
       (last'.op = "exit" /\ last'.c = c /\ conn[c].ws = "OPEN")
       => /\ conn'[c].ws = "CLOSING"
          /\ conn'[c].sent = conn[c].sent
          /\ ~HasError(conn'[c])]_vars

C10_Witness ==
  \E c \in Conns :
    /\ last.op = "exit" /\ last.c = c
    /\ conn[c].ws = "CLOSING" /\ ~conn[c].closeSession /\ ~HasError(conn[c])

\* the data of the output messages sent on a connection, in the order sent
RECURSIVE OutputsOf(_)
OutputsOf(sent) ==
  IF sent = <<>> THEN <<>>
  ELSE IF Head(sent).type = "output"
       THEN <<Head(sent).data>> \o OutputsOf(Tail(sent))
       ELSE OutputsOf(Tail(sent))

\* C11: the output messages of a connection are the chunks of its bridge,
\* each once and in the order produced: all of them while the connection is
\* open, the ones produced before it stopped being open afterwards.
C11_OutputInOrder ==
  \A c \in Conns :
    conn[c].pty =>
      LET out == OutputsOf(conn[c].sent)
      IN /\ Len(out) <= conn[c].produced
         /\ \A i \in 1..Len(out) : out[i] = i
         /\ conn[c].ws = "OPEN" => Len(out) = conn[c].produced

C11_Witness ==
  \E c \in Conns :
    /\ conn[c].ws = "OPEN" /\ conn[c].produced = 2
    /\ OutputsOf(conn[c].sent) = <<1, 2>>

\* C12: the exit subscriber of a bridge is invoked exactly once: once a
\* process has been reported as terminated it has been invoked, and it is
\* never invoked a second time, whatever is written to the bridge and however
\* often kill() is called.
C12_ExitOnce ==
  \A c \in Conns :
    /\ conn[c].exits <= 1
    /\ conn[c].proc = "exited" => conn[c].exits = 1

\* the connections of an identifier that have a live bridge, and the ones
\* whose socket is not closed yet
LiveBridges(S) == {c \in Conns : conn[c].sid = S /\ Alive(conn[c])}
OpenConns(S) == {c \in Conns : conn[c].sid = S /\ conn[c].ws \in {"OPEN", "CLOSING"}}

\* C13 as stated: at most one live bridge exists per session identifier.
C13_OneBridgePerIdentifier ==
  \A S \in SessionIds : Cardinality(LiveBridges(S)) <= 1

\* C13: an identifier has at most as many live bridges as it has connections
\* that are not closed: one bridge per connection, several connections per
\* identifier.
C13_OneBridgePerConnection ==
  \A S \in SessionIds : Cardinality(LiveBridges(S)) <= Cardinality(OpenConns(S))

C13_Witness ==
  \E S \in SessionIds :
    /\ Cardinality(LiveBridges(S)) = 2
    /\ \A c \in LiveBridges(S) : conn[c].ws = "OPEN" /\ conn[c].at = DerivedName(S)

\* C14: when a connection for S has been opened while an earlier connection
\* for S is open with a live bridge, the bridge of the later one gets attached
\* to the session of the earlier one, the earlier one is left as it is, and
\* the end of either connection leaves the other one as it is.
C14_SecondConnection ==
  [][\A c, d \in Conns :
       (c < d /\ conn[c].sid = conn[d].sid
          /\ conn[c].ws = "OPEN" /\ Alive(conn[c]))
       => /\ (last'.op = "tmux" /\ last'.c = d /\ conn[d].proc = "pending")
             => /\ conn'[d].proc = "attached"
                /\ conn[c].proc = "attached" => conn'[d].at = conn[c].at
                /\ conn'[c] = conn[c]
          /\ (last'.op \in {"ws-close", "ws-error"} /\ last'.c = d)
             => conn'[c] = conn[c]
          /\ (last'.op \in {"ws-close", "ws-error"} /\ last'.c = c
                /\ conn[d].ws = "OPEN")
             => conn'[d] = conn[d]]_vars

\* C15: once a connection for S has processed close-session, a connection
\* opened for S while no session named sandbox-S is alive takes the create
\* branch.
C15_FreshAfterTeardown ==
  [][\A c \in Conns :
       (last'.op = "connect" /\ last'.c = c /\ useTmux /\ conn'[c].pty
          /\ (\E d \in Conns \ {c} :
                conn[d].sid = conn'[c].sid /\ conn[d].closeSession)
          /\ DerivedName(conn'[c].sid) \notin sessions)
       => conn'[c].cmd = "new-session"]_vars

Prefixed(sess) == {n \in sess : StartsWith(n, <<"sandbox-">>)}

\* C16: after restart-all the sessions under the prefix are exactly the
\* default one, and a second restart-all would leave the same sessions.
C16_RestartLeavesDefault ==
  (last.op = "restart" /\ useTmux)
  => /\ Prefixed(sessions) = {DerivedName(DefaultId)}
     /\ RestartSessions(Tmux).sessions = sessions

\* C17: the warmup at startup leaves a session for 'default' alive (unless
\* its shell has exited since the warmup saw or created it), creates one only
\* when none was alive, never fails on a session that exists, and the first
\* connection for 'default' attaches to the session while it is alive.
C17_DefaultWarmup ==
  [][/\ (rst'.by = "startup" /\ rst'.pc = "mouse"
           /\ DerivedName(DefaultId) \notin sessions')
        => \/ last'.op = "shell-exit"
           \/ (rst.pc = "mouse" /\ DerivedName(DefaultId) \notin sessions)
     /\ (last'.op = "startup" /\ useTmux) => sessions' = sessions
     /\ last'.op = "startup-new"
        => /\ DerivedName(DefaultId) \notin sessions
           /\ sessions' = sessions \cup {DerivedName(DefaultId)}
     /\ last'.op # "startup-failed"
     /\ (last'.op = "connect" /\ useTmux /\ conn'[last'.c].pty
           /\ conn'[last'.c].sid = DefaultId
           /\ \A d \in Conns : conn[d].ws = "NONE"
           /\ DerivedName(DefaultId) \in sessions)
        => conn'[last'.c].cmd = "attach-session"]_vars

\* C18: the warmup at startup has set the mode on every session under the
\* prefix that was alive when it ran.
C18_ModePerSession ==
  [][(last'.op = "startup" /\ useTmux)
     => \A n \in Prefixed(sessions) : n \in sessionMouse']_vars

\* C19: a session created by the spawn of a bridge gets the mode enabled, by
\* the global option or by a mode-set of its own, unless it ends first.
C19_ModeAfterSpawn ==
  \A c \in Conns :
    (conn[c].cmd = "new-session" /\ conn[c].at = DerivedName(conn[c].sid))
    ~> \/ mouse
       \/ DerivedName(conn[c].sid) \in sessionMouse
       \/ DerivedName(conn[c].sid) \notin sessions

\* C20 as stated: an upgrade on another path changes nothing, an upgrade
\* whose URL does not parse creates no connection and no session, and an
\* accepted upgrade has the terminal path and the identifier of its session
\* parameter, 'default' when there is no parameter.
C20_UpgradeAsStated ==
  [][/\ last'.op = "reject" => (conn' = conn /\ sessions' = sessions)
     /\ last'.op = "upgrade-crash"
        => /\ sessions' = sessions
           /\ \A c \in Conns : conn[c].ws = "NONE" => conn'[c] = conn[c]
     /\ last'.op = "connect"
        => /\ last'.path = TerminalPath
           /\ conn'[last'.c].sid =
                IF last'.session = {} THEN DefaultId
                ELSE CHOOSE s \in last'.session : TRUE]_vars

\* C20: an upgrade on another path changes nothing, an upgrade whose URL
\* does not parse creates no connection and no session, and an accepted
\* upgrade has the terminal path and the identifier of its session parameter,
\* 'default' when there is no parameter or the parameter is empty.
C20_UpgradePath ==
  [][/\ last'.op = "reject" => (conn' = conn /\ sessions' = sessions)
     /\ last'.op = "upgrade-crash"
        => /\ sessions' = sessions
           /\ \A c \in Conns : conn[c].ws = "NONE" => conn'[c] = conn[c]
     /\ last'.op = "connect"
        => /\ last'.path = TerminalPath
           /\ conn'[last'.c].sid =
                IF last'.session \in {{}, {<<>>}} THEN DefaultId
                ELSE CHOOSE s \in last'.session : TRUE]_vars

C20_Witness ==
  /\ last.op = "connect" /\ last.session = {<<>>}
  /\ conn[1].sid = DefaultId /\ conn[1].pty

\* C21: with two connections for different identifiers, an input message on
\* one is written to its own bridge only, and reaches no session derived from
\* the identifier of the other; a chunk sent on one does not come from the
\* session derived from the identifier of the other.
C21_NoCrossTalk ==
  [][\A c, d \in Conns :
       (c # d /\ conn[c].pty /\ conn[d].ws # "NONE" /\ conn[c].sid # conn[d].sid)
       => /\ (last'.op = "input" /\ last'.c = c)
             => /\ conn'[d] = conn[d]
                /\ conn[c].at # DerivedName(conn[d].sid)
          /\ (last'.op = "data" /\ last'.c = c /\ conn'[c].sent # conn[c].sent)
             => conn[c].at # DerivedName(conn[d].sid)]_vars

\* text x occurs in text s
Contains(s, x) ==
  \E i \in 0..(Len(s) - Len(x)) : SubSeq(s, i + 1, i + Len(x)) = x

\* the words echoed in the model
EchoWords == {<<"h", "i">>, <<"a", " ", "b">>}

\* C22: on an open connection with the echo substitute, an input message
\* `echo X` followed by a newline is answered by an output message whose
\* data contains X.
C22_EchoEndToEnd ==
  [][\A X \in EchoWords :
       (last'.op = "input" /\ conn[1].ws = "OPEN"
          /\ conn'[1].written =
               Append(conn[1].written,
                      [data |-> CmdEcho \o X \o <<"\n">>,
                       to |-> conn[1].at, proc |-> conn[1].proc]))
       => \E i \in (Len(conn[1].sent) + 1)..Len(conn'[1].sent) :
            /\ conn'[1].sent[i].type = "output"
            /\ Contains(conn'[1].sent[i].data, X)]_vars

C22_Witness ==
  /\ last.op = "input" /\ conn[1].ws = "OPEN"
  /\ \E i \in 1..Len(conn[1].sent) :
       conn[1].sent[i] = [type |-> "output", data |-> <<"h", "i", "\r", "\n">>]

\* the steps of one connection that are faults of that connection
FaultOps ==
  {"connect", "malformed", "other", "input", "resize", "ws-error", "ws-close",
   "exit", "proc-exit", "crash"}

\* C23: a fault of one connection leaves the gateway running and leaves
\* every other connection as it is, unless that one is attached to the same
\* session.
C23_FaultIsolation ==
  [][\A c \in Conns :
       (last'.c = c /\ last'.op \in FaultOps /\ started)
       => /\ started'
          /\ \A d \in Conns \ {c} :
               (conn[d].at = NoName \/ conn[d].at # conn[c].at)
               => conn'[d] = conn[d]]_vars

\* C24: the response of list-sessions holds exactly the identifiers whose
\* derived session is alive: sessions without the prefix are left out, and
\* it is empty, not an error, when tmux has no session or is not there.
C24_ListSessions ==
  last.op = "list"
  => last.resp = {id \in SessionIds : DerivedName(id) \in sessions}

C24_Witness ==
  /\ last.op = "list"
  /\ ForeignName \in sessions
  /\ last.resp = {DefaultId, IdAB}

\* C25: the geometry of a bridge is 80x24 at spawn; a resize message with
\* two positive dimensions sets the geometry of a live bridge to them; any
\* other step, a resize that is refused included, leaves the geometry as it
\* is, and no resize changes the state of the connection.
C25_Geometry ==
  [][\A c \in Conns :
       /\ (last'.op = "connect" /\ last'.c = c /\ conn'[c].pty)
          => (conn'[c].cols = 80 /\ conn'[c].rows = 24)
       /\ (last'.op = "resize" /\ last'.c = c)
          => /\ conn'[c].ws = conn[c].ws
             /\ IF Positive(last'.cols) /\ Positive(last'.rows) /\ Alive(conn[c])
                THEN /\ conn'[c].cols = Num(last'.cols)
                     /\ conn'[c].rows = Num(last'.rows)
                ELSE /\ conn'[c].cols = conn[c].cols
                     /\ conn'[c].rows = conn[c].rows
       /\ ~(last'.op \in {"connect", "resize"} /\ last'.c = c)
          => (conn'[c].cols = conn[c].cols /\ conn'[c].rows = conn[c].rows)]_vars

C25_Witness ==
  /\ last.op = "resize" /\ last.cols = {100} /\ last.rows = {40}
  /\ conn[1].ws = "OPEN" /\ conn[1].proc = "attached"
  /\ conn[1].cols = 100 /\ conn[1].rows = 40

\* C26: a connection with a bridge stops being open only by the close or
\* the error of its transport (the end of the gateway process closes every
\* transport), by the exit of its bridge or by its own close-session; the
\* clock and the heartbeat timer change nothing on it, and an input message
\* on an open connection is written to its bridge however late it comes.
C26_NoIdleTimeout ==
  [][\A c \in Conns :
       (conn[c].ws = "OPEN" /\ conn[c].pty)
       => /\ conn'[c].ws # "OPEN"
             => \/ last'.c = c /\ last'.op \in {"ws-close", "ws-error", "exit",
                                                "close-session"}
                \/ last'.op = "update-exit"
          /\ last'.op \in {"tick", "heartbeat"} => conn'[c] = conn[c]
          /\ (last'.op = "input" /\ last'.c = c)
             => Len(conn'[c].written) = Len(conn[c].written) + 1]_vars

C26_Witness ==
  /\ last.op = "input" /\ last.c = 1
  /\ conn[1].ws = "OPEN" /\ Len(conn[1].written) = 1
  /\ Len(upd.checkTimes) = 1
  /\ upd.now >= upd.checkTimes[1] + 2 * TickMs

\* C27 as stated: any two checks are at least one interval apart, whichever
\* gateway process started them, also while the fetch of an earlier one is
\* pending, and no more pull scripts are started than checks (so a second
\* pull inside a window needs a second check inside it).
C27_ThrottleAsStated ==
  /\ \A i, j \in 1..Len(upd.checkTimes) :
       i < j => upd.checkTimes[j] - upd.checkTimes[i] >= 5 * 60 * 1000
  /\ (upd.checkTimes # <<>> /\ upd.earlierCheck # 0)
       => upd.checkTimes[1] - upd.earlierCheck >= 5 * 60 * 1000
  /\ upd.pulls <= Len(upd.checkTimes)

\* C27: the checks one gateway process starts are at least one interval
\* apart, also while the fetch of an earlier one is pending, and the process
\* starts no more pull scripts than checks.
C27_UpdateThrottle ==
  /\ \A i, j \in 1..Len(upd.checkTimes) :
       i < j => upd.checkTimes[j] - upd.checkTimes[i] >= 5 * 60 * 1000
  /\ upd.pulls <= Len(upd.checkTimes)

C27_Witness ==
  /\ conn[1].ws = "OPEN" /\ conn[2].ws = "OPEN"
  /\ last.op = "connect" /\ last.c = 2
  /\ upd.fetching = 1 /\ upd.checkTimes = <<upd.now>>

\* C28: when a session is killed under a connection that did not ask for it
\* (close-session on another connection, or a restart), the bridge of that
\* connection is left with a terminated process while its socket is open;
\* from there the exit event is delivered and the socket is closed, no error
\* message is ever sent on it, and the gateway goes on listening.
Orphaned(d) ==
  /\ conn[d].pty
  /\ conn[d].proc = "dead"
  /\ conn[d].ws = "OPEN"
ClosedByExit(d) ==
  /\ conn[d].proc = "exited"
  /\ conn[d].exits > 0
  /\ conn[d].ws \in {"CLOSING", "CLOSED"}
  /\ ~HasError(conn[d])
  /\ started
C28_OrphansClose ==
  \A d \in Conns : Orphaned(d) ~> ClosedByExit(d)
\* a connection that was attached and never asked to close has been closed by
\* the exit of its bridge, after close-session on the other connection
C28_Witness ==
  \E c, d \in Conns :
    /\ c # d
    /\ conn[c].closeSession
    /\ ~conn[d].closeSession
    /\ conn[d].produced > 0
    /\ conn[d].ws = "CLOSING"
    /\ ClosedByExit(d)
    /\ last.op = "exit" /\ last.c = d
\* C29: a bridge never exists with a subscriber unset, so no output chunk and
\* no exit event of a bridge has occurred without its subscriber; on an open
\* connection every chunk the bridge has produced is among the messages sent,
\* and a process that is reported as terminated has reached the exit
\* subscriber.
Wired(r) == r.dataCallback /\ r.exitCallback
C29_NoLostEvent ==
  \A c \in Conns :
    /\ conn[c].pty => Wired(conn[c])
    /\ conn[c].unheard = 0
    /\ conn[c].ws = "OPEN" => Len(OutputsOf(conn[c].sent)) = conn[c].produced
    /\ conn[c].proc = "exited" => conn[c].exits > 0
\* two bridges spawned one after the other: the first has had its exit event
\* delivered, the second has just produced its first chunk, which was sent
C29_Witness ==
  \E c, d \in Conns :
    /\ c # d
    /\ conn[c].proc = "exited" /\ conn[c].exits = 1
    /\ conn[d].ws = "OPEN" /\ conn[d].produced = 1
    /\ Len(conn[d].sent) = 1
    /\ last.op = "data" /\ last.c = d
\* C30: a close-session step on a connection for S leaves every session
\* derived from another identifier T as it was (alive exactly if it was alive
\* before), and leaves every connection whose bridge is attached to such a
\* session open and attached.
C30_CloseSessionFrame ==
  [][\A c \in Conns :
       (last'.op = "close-session" /\ last'.c = c)
       => \A T \in SessionIds \ {conn[c].sid} :
            /\ (DerivedName(T) \in sessions') = (DerivedName(T) \in sessions)
            /\ \A d \in Conns \ {c} :
                 (conn[d].proc = "attached" /\ conn[d].at = DerivedName(T))
                 => /\ conn'[d].proc = "attached"
                    /\ conn'[d].at = DerivedName(T)
                    /\ conn'[d].ws = conn[d].ws]_vars
\* C31: once a connection has processed close-session, or the exit of its
\* bridge has been delivered, a later message on it has no effect: the
\* sessions are as before, the geometry of its bridge is as before, nothing
\* it writes reaches a process, and the other connections are as before.
Finished(r) == r.closeSession \/ r.proc = "exited"
MessageOps == {"input", "resize", "close-session", "malformed", "other"}
C31_DeadConnectionInert ==
  [][\A c \in Conns :
       (Finished(conn[c]) /\ last'.op \in MessageOps /\ last'.c = c)
       => /\ sessions' = sessions
          /\ conn'[c].cols = conn[c].cols /\ conn'[c].rows = conn[c].rows
          /\ \A i \in (Len(conn[c].written) + 1)..Len(conn'[c].written) :
               conn'[c].written[i].to = NoName
          /\ \A d \in Conns \ {c} : conn'[d] = conn[d]]_vars
====
